---- MODULE Spec2Model ----
(***************************************************************************)
(* Attendance check-in ledger of nss_onam_qr.                              *)
(*                                                                         *)
(* services/attendance_service.py keeps, per event_payment row (a ticket), *)
(* a set of event_checkin rows (admission batches).  update_checkins       *)
(* admits (delta > 0) by inserting one batch and rewinds (delta < 0) by    *)
(* revoking or reducing the newest active batches, inside one database     *)
(* transaction that holds a row lock (SELECT ... FOR UPDATE) on the        *)
(* parent row.  api_server.py wraps it in POST /api/checkin.               *)
(*                                                                         *)
(* The database is PostgreSQL at READ COMMITTED: a transaction's writes    *)
(* are private (tx[p]) until COMMIT, every statement reads the committed   *)
(* rows overlaid with the transaction's own writes, and a FOR UPDATE       *)
(* select blocks while another transaction holds the row.                  *)
(***************************************************************************)
EXTENDS Integers, Sequences, FiniteSets, TLC

\* ------------------------------------------------------------------ bounds
MaxAttendees == 4
MaxBatches == 3
MaxClock == 1
MaxDelta == 2

\* ------------------------------------------------------------ model values
Procs == {"p1", "p2"}
NoProc == "none"
Null == "NULL"
KnownTxns == {"T1", "T2"}
UnknownTxn == "TX"
Txns == KnownTxns \cup {UnknownTxn}
Verifiers == {Null, "v1"}
Notes == {Null, "n1"}
Deltas == (0 - MaxDelta) .. MaxDelta

\* an optional string that is absent (Python's None), as a value that can be
\* compared with character sequences
None == <<Null>>

VARIABLES
    event_payment,   \* table: transaction_id -> [id, username, email,
                     \*        number_of_attendees, last_updated_at]
    event_checkin,   \* table: set of committed batch rows
    checkin_seq,     \* the serial sequence behind event_checkin.id
    clock,           \* database clock
    rowLock,         \* transaction_id -> holder of the FOR UPDATE row lock
    pc,              \* per caller: position in post_checkin / update_checkins
    call,            \* per caller: [txn, delta, verifier_id, notes]
    txStart,         \* per caller: CURRENT_TIMESTAMP of its transaction
    pay,             \* per caller: the locked parent row (pay)
    tx,              \* per caller: uncommitted row versions of its transaction
    batches,         \* per caller: rest of the newest-first batch list
    remaining_to_rewind,
    result,          \* per caller: what update_checkins returned
    http,            \* per caller: the HTTP answer of post_checkin
    race,            \* history: <<remaining>> while two admits on one ticket
                     \* are both waiting for its row lock, else <<>>
    stamp,           \* per caller: its transaction has stamped the parent row
    expected,        \* the environment's VERIFIER_API_KEY
    req,             \* per caller: the HTTP request it is serving
    base_row,        \* per caller: the parent row a read-only query selected
    row,             \* per caller: what the read-only query returned
    form             \* the staff edit form: the values it was loaded with

vars == <<event_payment, event_checkin, checkin_seq, clock, rowLock, pc, call,
          txStart, pay, tx, batches, remaining_to_rewind, result, http,
          race, stamp, expected, req, base_row,
          row, form>>

\* ------------------------------------------------------------- pure helpers
Max(a, b) == IF a >= b THEN a ELSE b

Abs(n) == IF n < 0 THEN 0 - n ELSE n

RECURSIVE SumCounts(_)
SumCounts(S) ==
    IF S = {} THEN 0
    ELSE LET r == CHOOSE x \in S : TRUE
         IN  r.count_checked_in + SumCounts(S \ {r})

\* _coerce_int on an integer column value: int(v or default), clamped at 0
CoerceInt(v, default) == LET n == IF v = 0 THEN default ELSE v IN Max(0, n)

\* faulty variant: COUNT of the active batches instead of the SUM of their counts
RollupCounts_CountsRows(rows, pid) ==
    Cardinality({r \in rows : r.payment_id = pid /\ ~r.revoked_yn})

\* faulty variant: the revoked_yn = FALSE filter is missing
RollupCounts_IncludesRevoked(rows, pid) ==
    CoerceInt(SumCounts({r \in rows : r.payment_id = pid}), 0)

\* SUM(CASE WHEN revoked_yn = FALSE THEN count_checked_in END) WHERE payment_id
RollupCounts(rows, pid) ==
    CoerceInt(SumCounts({r \in rows : r.payment_id = pid /\ ~r.revoked_yn}), 0)

\* faulty variant: the rollup is not subtracted
Remaining_IgnoresRollup(rows, pid, planned) == Max(0, planned)

Remaining(rows, pid, planned) == Max(0, planned - RollupCounts(rows, pid))

\* faulty variant: ORDER BY created_at ASC, id ASC
Newer_OldestFirst(a, b) ==
    \/ a.created_at < b.created_at
    \/ a.created_at = b.created_at /\ a.id < b.id

\* ORDER BY created_at DESC, id DESC
Newer(a, b) ==
    \/ a.created_at > b.created_at
    \/ a.created_at = b.created_at /\ a.id > b.id

RECURSIVE OrderNewestFirst(_)
OrderNewestFirst(S) ==
    IF S = {} THEN <<>>
    ELSE LET top == CHOOSE x \in S : \A y \in S \ {x} : Newer(x, y)
         IN  <<top>> \o OrderNewestFirst(S \ {top})

\* faulty variant: the revoked_yn = FALSE filter of the batch select is missing
ActiveBatches_All(rows, pid) == {r \in rows : r.payment_id = pid}

\* WHERE payment_id = :pid AND revoked_yn = FALSE
ActiveBatches(rows, pid) == {r \in rows : r.payment_id = pid /\ ~r.revoked_yn}

\* what the statements of caller p's transaction read: committed rows, with
\* the row versions p wrote itself in place of the committed ones
View(p) ==
    {r \in event_checkin : \A w \in tx[p] : w.id # r.id} \cup tx[p]

\* SELECT id, transaction_id, username, email, number_of_attendees
Selected(payments, txn) ==
    [id |-> payments[txn].id, transaction_id |-> txn,
     username |-> payments[txn].username, email |-> payments[txn].email,
     number_of_attendees |-> payments[txn].number_of_attendees]

NoRow == [found |-> FALSE]

\* faulty variant: the clamp at 0 is missing
Projection_NoClamp(base, checked) ==
    LET total == CoerceInt(base.number_of_attendees, 0)
    IN  [found |-> TRUE,
         transaction_id |-> base.transaction_id,
         username |-> base.username,
         email |-> base.email,
         number_of_attendees |-> total,
         number_checked_in |-> checked,
         remaining |-> total - checked,
         all_attendees_checked_in |-> (total > 0 /\ checked >= total)]

\* lines 73-83 (and 106-116): the parent row with its derived counts
Projection(base, checked) ==
    LET total == CoerceInt(base.number_of_attendees, 0)
    IN  [found |-> TRUE,
         transaction_id |-> base.transaction_id,
         username |-> base.username,
         email |-> base.email,
         number_of_attendees |-> total,
         number_checked_in |-> checked,
         remaining |-> Max(0, total - checked),
         all_attendees_checked_in |-> (total > 0 /\ checked >= total)]

\* fetch_attendance_row_by_txn when no commit falls between its two
\* statements: parent row plus derived rollups, or None
FetchAttendanceRow(payments, rows, txn) ==
    IF txn \notin DOMAIN payments THEN NoRow
    ELSE Projection(Selected(payments, txn), RollupCounts(rows, payments[txn].id))

\* ------------------------------------------------------------------ strings
\* str.lower() on the characters the model uses
LowerChar(c) ==
    CASE c = "A" -> "a" [] c = "B" -> "b" [] c = "E" -> "e" [] c = "N" -> "n"
      [] c = "R" -> "r" [] c = "K" -> "k" [] OTHER -> c

Lower(s) == [i \in 1 .. Len(s) |-> LowerChar(s[i])]

RECURSIVE LStrip(_)
LStrip(s) == IF s # <<>> /\ Head(s) = " " THEN LStrip(Tail(s)) ELSE s

RECURSIVE RStrip(_)
RStrip(s) ==
    IF s # <<>> /\ s[Len(s)] = " " THEN RStrip(SubSeq(s, 1, Len(s) - 1)) ELSE s

\* str.strip()
Strip(s) == RStrip(LStrip(s))

\* str.startswith(prefix)
StartsWith(s, prefix) ==
    Len(s) >= Len(prefix) /\ SubSeq(s, 1, Len(prefix)) = prefix

\* s.split(" ", 1)[1] of a string that holds a space
RECURSIVE AfterFirstSpace(_)
AfterFirstSpace(s) == IF Head(s) = " " THEN Tail(s) ELSE AfterFirstSpace(Tail(s))

\* SQL: s LIKE pattern, with the wildcards % and _
RECURSIVE Like(_, _)
Like(s, pattern) ==
    IF pattern = <<>> THEN s = <<>>
    ELSE IF Head(pattern) = "%"
    THEN Like(s, Tail(pattern)) \/ (s # <<>> /\ Like(Tail(s), pattern))
    ELSE /\ s # <<>>
         /\ Head(pattern) = "_" \/ Head(pattern) = Head(s)
         /\ Like(Tail(s), Tail(pattern))

\* ----------------------------------------------------------------- results
Msg(fmt, a) == [fmt |-> fmt, args |-> a]
NoResult == [ok |-> FALSE, msg |-> Msg("", <<>>)]
NoHttp == [status |-> 0, detail |-> Msg("", <<>>), checked_in |-> 0, remaining |-> 0]
NoPay == [id |-> 0, number_of_attendees |-> 0]
NoCall == [txn |-> UnknownTxn, delta |-> 0, verifier_id |-> Null, notes |-> Null]
NoReq == [endpoint |-> "none"]
NoBase == [found |-> FALSE]
NoForm == [page |-> "none"]

\* strings whose characters matter are sequences of one-character strings
Username(txn) == IF txn = "T1" THEN <<"A", "n">> ELSE <<"B", "a">>
Email(txn) == IF txn = "T1" THEN <<"a", "@", "x">> ELSE <<"b", "@", "x">>

PaymentId(txn) == IF txn = "T1" THEN 1 ELSE 2

\* the tickets as the upload created them: no check-ins yet
Imported(n1, n2) ==
    [t \in KnownTxns |->
        [id |-> PaymentId(t), username |-> Username(t), email |-> Email(t),
         number_of_attendees |-> IF t = "T1" THEN n1 ELSE n2,
         last_updated_at |-> 0]]

\* the state when the application starts
InitState(payments, key) ==
    /\ event_payment = payments
    /\ event_checkin = {}
    /\ checkin_seq = 1
    /\ clock = 0
    /\ rowLock = [t \in KnownTxns |-> NoProc]
    /\ pc = [p \in Procs |-> "idle"]
    /\ call = [p \in Procs |-> NoCall]
    /\ txStart = [p \in Procs |-> 0]
    /\ pay = [p \in Procs |-> NoPay]
    /\ tx = [p \in Procs |-> {}]
    /\ batches = [p \in Procs |-> <<>>]
    /\ remaining_to_rewind = [p \in Procs |-> 0]
    /\ result = [p \in Procs |-> NoResult]
    /\ http = [p \in Procs |-> NoHttp]
    /\ race = <<>>
    /\ stamp = [p \in Procs |-> FALSE]
    /\ expected = key
    /\ req = [p \in Procs |-> NoReq]
    /\ base_row = [p \in Procs |-> NoBase]
    /\ row = [p \in Procs |-> NoRow]
    /\ form = NoForm

Init == InitState(Imported(MaxAttendees, 1), None)

\* ------------------------------------------------------------ transactions
\* faulty variant: a plain SELECT without FOR UPDATE never waits
LockAvailable_NoForUpdate(txn) == txn \in DOMAIN rowLock

\* faulty variant: one lock for the whole table
LockAvailable_TableLock(txn) == \A t \in DOMAIN rowLock : rowLock[t] = NoProc

\* the FOR UPDATE select on the parent row returns only when no other
\* transaction holds the row
LockAvailable(txn) == rowLock[txn] = NoProc

\* faulty variant: the end of the transaction leaves the row locked
Unlocked_KeepsLock(p) == rowLock

\* the row locks once caller p's transaction has ended
Unlocked(p) == [t \in KnownTxns |-> IF rowLock[t] = p THEN NoProc ELSE rowLock[t]]

\* faulty variant: the parent row is never stamped
TouchParent_Never(payments, txn, ts) == payments

\* the trigger on event_checkin stamps the parent row of a written batch
TouchParent(payments, txn, ts) ==
    [payments EXCEPT ![txn].last_updated_at = ts]

\* the parent rows once caller p's transaction has committed
Stamped(p) ==
    IF stamp[p] THEN TouchParent(event_payment, call[p].txn, txStart[p])
    ELSE event_payment

\* leaving the "with engine.begin()" block normally: COMMIT
Commit(p) ==
    /\ event_checkin' = View(p)
    /\ event_payment' = Stamped(p)
    /\ tx' = [tx EXCEPT ![p] = {}]
    /\ stamp' = [stamp EXCEPT ![p] = FALSE]
    /\ rowLock' = Unlocked(p)

\* faulty variant: the writes made before the exception are committed (autocommit)
Rollback_KeepsWrites(p) ==
    /\ event_checkin' = View(p)
    /\ event_payment' = Stamped(p)
    /\ tx' = [tx EXCEPT ![p] = {}]
    /\ stamp' = [stamp EXCEPT ![p] = FALSE]
    /\ rowLock' = Unlocked(p)

\* leaving the block with an exception: ROLLBACK
Rollback(p) ==
    /\ event_checkin' = event_checkin
    /\ event_payment' = event_payment
    /\ tx' = [tx EXCEPT ![p] = {}]
    /\ stamp' = [stamp EXCEPT ![p] = FALSE]
    /\ rowLock' = Unlocked(p)

\* admits that will still draw an id from the sequence
PendingInserts == {q \in Procs : pc[q] \in {"lock", "admit"} /\ call[q].delta > 0}

\* faulty variant: the early return is missing
NoChange_Never(delta) == FALSE

\* line 127: if delta == 0
NoChange(delta) == delta = 0

\* faulty variant: >= instead of >
AdmitRejected_OffByOne(delta, remaining) == delta >= remaining

\* line 141: if delta > remaining
AdmitRejected(delta, remaining) == delta > remaining

\* line 170: if to_rewind > current_checked
RewindRejected(to_rewind, current_checked) == to_rewind > current_checked

\* faulty variant: < instead of <=
FullyConsumed_Strict(cnt, left) == cnt < left

\* line 179: if cnt <= remaining_to_rewind
FullyConsumed(cnt, left) == cnt <= left

\* ------------------------------------------------------------------ actions
Tick ==
    /\ clock < MaxClock
    /\ clock' = clock + 1
    /\ UNCHANGED <<event_payment, event_checkin, checkin_seq, rowLock, pc, call,
                   txStart, pay, tx, batches, remaining_to_rewind, result, http,
                   race, stamp, expected, req, base_row, row, form>>

\* update_checkins, lines 119-130: the delta == 0 early return, else BEGIN
\* (req, the HTTP request around the call, is set by who calls)
UpdateCheckins(p, txn, delta, vid, nts) ==
    /\ pc[p] = "idle"
    /\ delta > 0 => (checkin_seq - 1) + Cardinality(PendingInserts) < MaxBatches
    /\ call' = [call EXCEPT ![p] =
          [txn |-> txn, delta |-> delta, verifier_id |-> vid, notes |-> nts]]
    /\ IF NoChange(delta)
       THEN /\ result' = [result EXCEPT ![p] = [ok |-> TRUE, msg |-> Msg("No change.", <<>>)]]
            /\ pc' = [pc EXCEPT ![p] = "ret"]
            /\ UNCHANGED txStart
       ELSE /\ pc' = [pc EXCEPT ![p] = "lock"]
            /\ txStart' = [txStart EXCEPT ![p] = clock]
            /\ UNCHANGED result
    /\ race' =
          IF /\ delta > 0
             /\ txn \in DOMAIN event_payment
             /\ \A q \in Procs \ {p} :
                   pc[q] = "lock" /\ call[q].txn = txn /\ call[q].delta > 0
          THEN <<FetchAttendanceRow(event_payment, event_checkin, txn).remaining>>
          ELSE race
    /\ UNCHANGED <<event_payment, event_checkin, checkin_seq, clock, rowLock, pay,
                   tx, batches, remaining_to_rewind, http, stamp, expected,
                   base_row, row, form>>

\* faulty variant: the missing ticket is reported as a success
NotFoundResult_Ok == [ok |-> TRUE, msg |-> Msg("Transaction not found.", <<>>)]

\* line 134: return False, "Transaction not found."
NotFoundResult == [ok |-> FALSE, msg |-> Msg("Transaction not found.", <<>>)]

\* _fetch_payment_by_txn and lines 132-136
FetchPaymentByTxn(p) ==
    /\ pc[p] = "lock"
    /\ IF call[p].txn \notin DOMAIN event_payment
       THEN /\ result' = [result EXCEPT ![p] = NotFoundResult]
            /\ pc' = [pc EXCEPT ![p] = "ret"]
            /\ Commit(p)
            /\ UNCHANGED pay
       ELSE /\ LockAvailable(call[p].txn)
            /\ rowLock' = [rowLock EXCEPT ![call[p].txn] = p]
            /\ pay' = [pay EXCEPT ![p] = Selected(event_payment, call[p].txn)]
            /\ pc' = [pc EXCEPT ![p] = IF call[p].delta > 0 THEN "admit" ELSE "rewind"]
            /\ UNCHANGED <<result, event_checkin, event_payment, tx, stamp>>
    /\ UNCHANGED <<checkin_seq, clock, call, txStart, batches,
                   remaining_to_rewind, http, race, expected, req, base_row, row, form>>

\* the created_at column is filled by its default, the timestamp of the
\* inserting transaction
CreatedAtDefault(p) == txStart[p]

\* faulty variant: the notes are not stored
NewBatch_DropsNotes(id, pid, cnt, vid, nts, ts) ==
    [id |-> id, payment_id |-> pid, count_checked_in |-> cnt, verifier_id |-> vid,
     notes |-> Null, revoked_yn |-> FALSE, revoked_at |-> <<>>, revoked_by |-> Null,
     created_at |-> ts]

\* faulty variant: the batch is inserted for the first ticket, whatever :pid
NewBatch_FirstTicket(id, pid, cnt, vid, nts, ts) ==
    [id |-> id, payment_id |-> 1, count_checked_in |-> cnt, verifier_id |-> vid,
     notes |-> nts, revoked_yn |-> FALSE, revoked_at |-> <<>>, revoked_by |-> Null,
     created_at |-> ts]

\* INSERT INTO event_checkin (payment_id, count_checked_in, verifier_id, notes)
NewBatch(id, pid, cnt, vid, nts, ts) ==
    [id |-> id, payment_id |-> pid, count_checked_in |-> cnt, verifier_id |-> vid,
     notes |-> nts, revoked_yn |-> FALSE, revoked_at |-> <<>>, revoked_by |-> Null,
     created_at |-> ts]

\* lines 138-150: the remaining pre-check, then the insert
AdmitCheck(p) ==
    /\ pc[p] = "admit"
    /\ LET total == CoerceInt(pay[p].number_of_attendees, 0)
           remaining == Remaining(View(p), pay[p].id, total)
       IN  IF AdmitRejected(call[p].delta, remaining)
           THEN /\ result' = [result EXCEPT ![p] =
                      [ok |-> FALSE, msg |-> Msg("Only {remaining} remaining.", <<remaining>>)]]
                /\ pc' = [pc EXCEPT ![p] = "ret"]
                /\ Commit(p)
                /\ UNCHANGED checkin_seq
           ELSE /\ tx' = [tx EXCEPT ![p] = tx[p] \cup
                      {NewBatch(checkin_seq, pay[p].id, call[p].delta,
                                call[p].verifier_id, call[p].notes,
                                CreatedAtDefault(p))}]
                /\ checkin_seq' = checkin_seq + 1
                /\ stamp' = [stamp EXCEPT ![p] = TRUE]
                /\ pc' = [pc EXCEPT ![p] = "inserted"]
                /\ UNCHANGED <<result, event_checkin, event_payment, rowLock>>
    /\ UNCHANGED <<clock, call, txStart, pay, batches,
                   remaining_to_rewind, http, race, expected, req, base_row, row, form>>

\* lines 151-152: new rollup, return inside the block, COMMIT
AdmitReturn(p) ==
    /\ pc[p] = "inserted"
    /\ LET total == CoerceInt(pay[p].number_of_attendees, 0)
           new_rollup == RollupCounts(View(p), pay[p].id)
       IN  result' = [result EXCEPT ![p] =
              [ok |-> TRUE, msg |-> Msg("Checked in {delta}. Now {new_rollup}/{total}.",
                                        <<call[p].delta, new_rollup, total>>)]]
    /\ pc' = [pc EXCEPT ![p] = "ret"]
    /\ Commit(p)
    /\ UNCHANGED <<checkin_seq, clock, call, txStart, pay, batches,
                   remaining_to_rewind, http, race, expected, req, base_row, row, form>>

\* faulty variant: revoked_by is not set
RevokeBatch_KeepsRevokedBy(r, vid, ts) ==
    [r EXCEPT !.revoked_yn = TRUE, !.revoked_at = <<ts>>]

\* faulty variant: revoked_yn stays FALSE
RevokeBatch_KeepsActive(r, vid, ts) ==
    [r EXCEPT !.revoked_at = <<ts>>,
              !.revoked_by = IF vid # Null THEN vid ELSE r.revoked_by]

\* UPDATE ... SET revoked_yn = TRUE, revoked_at = CURRENT_TIMESTAMP,
\*                revoked_by = COALESCE(:vid, revoked_by) WHERE id = :bid
RevokeBatch(r, vid, ts) ==
    [r EXCEPT !.revoked_yn = TRUE,
              !.revoked_at = <<ts>>,
              !.revoked_by = IF vid # Null THEN vid ELSE r.revoked_by]

\* faulty variant: the UPDATE also detaches the batch from its ticket
ReduceBatch_Detaches(r, new_cnt) ==
    [r EXCEPT !.count_checked_in = new_cnt, !.payment_id = 0]

\* UPDATE ... SET count_checked_in = :new_cnt WHERE id = :bid
ReduceBatch(r, new_cnt) == [r EXCEPT !.count_checked_in = new_cnt]

\* the row an UPDATE ... WHERE id = bid of caller p's transaction hits
RowOf(p, bid) == CHOOSE r \in View(p) : r.id = bid

\* the writes of caller p's transaction after it wrote row version w
WriteRow(p, w) == {x \in tx[p] : x.id # w.id} \cup {w}

\* the SELECT id, count_checked_in projection, newest first
BatchList(S) ==
    LET ordered == OrderNewestFirst(S)
    IN  [i \in 1 .. Len(ordered) |->
           [id |-> ordered[i].id, count_checked_in |-> ordered[i].count_checked_in]]

\* the batch rows caller p's transaction holds locked by the FOR UPDATE of
\* its batch select (lines 158-167), until it commits or rolls back
BatchLocks(p) ==
    IF pc[p] = "loop"
    THEN {r.id : r \in ActiveBatches(event_checkin, pay[p].id)}
             \cup {w.id : w \in tx[p]}
    ELSE {}

\* the FOR UPDATE of the batch select returns only when no other
\* transaction holds one of the selected rows
BatchLocksAvailable(p) ==
    \A q \in Procs \ {p} :
        BatchLocks(q) \cap {r.id : r \in ActiveBatches(View(p), pay[p].id)} = {}

\* lines 155-173: select the active batches newest-first, check the bound
RewindSelect(p) ==
    /\ pc[p] = "rewind"
    /\ BatchLocksAvailable(p)
    /\ LET to_rewind == Abs(call[p].delta)
           current_checked == RollupCounts(View(p), pay[p].id)
       IN  IF RewindRejected(to_rewind, current_checked)
           THEN /\ result' = [result EXCEPT ![p] =
                      [ok |-> FALSE,
                       msg |-> Msg("Cannot rewind {to_rewind}; only {current_checked} already checked in.",
                                   <<to_rewind, current_checked>>)]]
                /\ pc' = [pc EXCEPT ![p] = "ret"]
                /\ Commit(p)
                /\ UNCHANGED <<batches, remaining_to_rewind>>
           ELSE /\ batches' = [batches EXCEPT ![p] =
                      BatchList(ActiveBatches(View(p), pay[p].id))]
                /\ remaining_to_rewind' = [remaining_to_rewind EXCEPT ![p] = to_rewind]
                /\ pc' = [pc EXCEPT ![p] = "loop"]
                /\ UNCHANGED <<result, event_checkin, event_payment, tx, stamp,
                               rowLock>>
    /\ UNCHANGED <<checkin_seq, clock, call, txStart, pay, http,
                   race, expected, req, base_row, row, form>>

\* lines 174-203: one iteration of "for b in batches"
RewindStep(p) ==
    /\ pc[p] = "loop"
    /\ batches[p] # <<>>
    /\ ~(remaining_to_rewind[p] <= 0)
    /\ LET b == Head(batches[p])
           bid == b.id
           cnt == CoerceInt(b.count_checked_in, 0)
           new_cnt == cnt - remaining_to_rewind[p]
       IN  IF FullyConsumed(cnt, remaining_to_rewind[p])
           THEN /\ tx' = [tx EXCEPT ![p] = WriteRow(p,
                      RevokeBatch(RowOf(p, bid), call[p].verifier_id, txStart[p]))]
                /\ remaining_to_rewind' =
                      [remaining_to_rewind EXCEPT ![p] = remaining_to_rewind[p] - cnt]
           ELSE /\ tx' = [tx EXCEPT ![p] = WriteRow(p,
                      ReduceBatch(RowOf(p, bid), new_cnt))]
                /\ remaining_to_rewind' = [remaining_to_rewind EXCEPT ![p] = 0]
    /\ batches' = [batches EXCEPT ![p] = Tail(batches[p])]
    /\ stamp' = [stamp EXCEPT ![p] = TRUE]
    /\ UNCHANGED <<event_payment, event_checkin, checkin_seq, clock, rowLock, pc,
                   call, txStart, pay, result, http, race, expected, req, base_row,
                   row, form>>

\* lines 174-176 and 205-206: the loop ends, new rollup, return, COMMIT
RewindReturn(p) ==
    /\ pc[p] = "loop"
    /\ batches[p] = <<>> \/ remaining_to_rewind[p] <= 0
    /\ LET total == CoerceInt(pay[p].number_of_attendees, 0)
           new_rollup == RollupCounts(View(p), pay[p].id)
       IN  result' = [result EXCEPT ![p] =
              [ok |-> TRUE, msg |-> Msg("Rewound {to_rewind}. Now {new_rollup}/{total}.",
                                        <<Abs(call[p].delta), new_rollup, total>>)]]
    /\ pc' = [pc EXCEPT ![p] = "ret"]
    /\ Commit(p)
    /\ UNCHANGED <<checkin_seq, clock, call, txStart, pay, batches,
                   remaining_to_rewind, http, race, expected, req, base_row, row, form>>

\* an exception inside the "with engine.begin()" block (lost connection,
\* lock failure, constraint violation): the context manager rolls back and
\* the exception leaves update_checkins
InTransaction == {"lock", "admit", "inserted", "rewind", "loop"}

Raise(p) ==
    /\ pc[p] \in InTransaction
    /\ Rollback(p)
    /\ pc' = [pc EXCEPT ![p] = "raised"]
    /\ race' = <<>>
    /\ UNCHANGED <<checkin_seq, clock, call, txStart, pay, batches,
                   remaining_to_rewind, result, http, expected, req, base_row, row,
                   form>>

\* ---------------------------------------------------------------- queries
\* faulty variant: a query sees the uncommitted writes of open transactions
ReadCommitted_Dirty ==
    {r \in event_checkin : \A q \in Procs : \A w \in tx[q] : w.id # r.id}
        \cup UNION {tx[q] : q \in Procs}

\* what a statement outside update_checkins reads from event_checkin
ReadCommitted == event_checkin

\* first statement of fetch_attendance_row_by_txn, lines 59-71
SelectBase(txn) ==
    IF txn \in DOMAIN event_payment
    THEN [found |-> TRUE, r |-> Selected(event_payment, txn)]
    ELSE NoBase

\* fetch_attendance_row_by_txn called in-process: the select of the parent
\* row; None when there is none
FetchAttendanceRowByTxn(p, txn) ==
    /\ pc[p] = "idle"
    /\ call' = [call EXCEPT ![p] = [NoCall EXCEPT !.txn = txn]]
    /\ base_row' = [base_row EXCEPT ![p] = SelectBase(txn)]
    /\ pc' = [pc EXCEPT ![p] = IF SelectBase(txn).found THEN "rollup" ELSE "row"]
    /\ UNCHANGED <<event_payment, event_checkin, checkin_seq, clock, rowLock,
                   txStart, pay, tx, batches, remaining_to_rewind, result, http,
                   race, stamp, expected, req, row, form>>

\* second statement of fetch_attendance_row_by_txn and its return value,
\* lines 72-83
FetchRollup(p) ==
    /\ pc[p] = "rollup"
    /\ row' = [row EXCEPT ![p] =
          Projection(base_row[p].r, RollupCounts(ReadCommitted, base_row[p].r.id))]
    /\ pc' = [pc EXCEPT ![p] = "row"]
    /\ UNCHANGED <<event_payment, event_checkin, checkin_seq, clock, rowLock, call,
                   txStart, pay, tx, batches, remaining_to_rewind, result, http,
                   race, stamp, expected, req, base_row, form>>

\* byte order of the characters the model uses
Alphabet == <<" ", "@", "A", "B", "N", "_", "a", "b", "n", "q", "x">>

Rank(c) == CHOOSE i \in 1 .. Len(Alphabet) : Alphabet[i] = c

\* ORDER BY ep.username ASC
RECURSIVE NameBefore(_, _)
NameBefore(a, b) ==
    IF a = <<>> THEN b # <<>>
    ELSE IF b = <<>> THEN FALSE
    ELSE IF Head(a) = Head(b) THEN NameBefore(Tail(a), Tail(b))
    ELSE Rank(Head(a)) < Rank(Head(b))

RECURSIVE OrderByUsername(_)
OrderByUsername(S) ==
    IF S = {} THEN <<>>
    ELSE LET first == CHOOSE t \in S :
                 \A u \in S \ {t} : ~NameBefore(Username(u), Username(t))
         IN  <<first>> \o OrderByUsername(S \ {first})

\* LIMIT 25
SearchLimit == 25

Limit(list, n) == IF Len(list) > n THEN SubSeq(list, 1, n) ELSE list

\* the search texts the model tries
Queries == {<<>>, <<"N">>, <<" ", "a">>, <<"_", "a">>, <<"q">>}

\* WHERE LOWER(ep.username) LIKE :q OR LOWER(ep.email) LIKE :q, with
\* q_like = "%" + q.strip().lower() + "%"
Matching(q) ==
    LET q_like == <<"%">> \o Lower(Strip(q)) \o <<"%">>
    IN  {t \in DOMAIN event_payment :
            \/ Like(Lower(event_payment[t].username), q_like)
            \/ Like(Lower(event_payment[t].email), q_like)}

\* fetch_attendance_by_name_or_email: one statement, one projection per row
\* (the answer is kept together with the text q it was asked for)
FetchAttendanceByNameOrEmail(p, q) ==
    /\ pc[p] = "idle"
    /\ LET rows == Limit(OrderByUsername(Matching(q)), SearchLimit)
       IN  row' = [row EXCEPT ![p] =
              [found |-> TRUE,
               q |-> q,
               data |-> [i \in 1 .. Len(rows) |->
                  Projection(Selected(event_payment, rows[i]),
                             CoerceInt(RollupCounts(ReadCommitted,
                                                    event_payment[rows[i]].id), 0))]]]
    /\ pc' = [pc EXCEPT ![p] = "row"]
    /\ UNCHANGED <<event_payment, event_checkin, checkin_seq, clock, rowLock, call,
                   txStart, pay, tx, batches, remaining_to_rewind, result, http,
                   race, stamp, expected, req, base_row, form>>

\* ------------------------------------------------------------- staff edits
\* _coerce_attendees of the edit pages
CoerceAttendees(v, default) == LET n == IF v = 0 THEN default ELSE v IN Max(0, n)

\* UPDATE event_payment SET number_of_attendees = :n, last_updated_at = :now
\* WHERE transaction_id = :txn
SetAttendees(payments, txn, n, now) ==
    [payments EXCEPT ![txn].number_of_attendees = n, ![txn].last_updated_at = now]

\* the "Save changes (no regen)" button of the issue screen: the UPDATE waits
\* for the row, and writes whatever count was entered
IssueScreenSave(txn, attendees_in) ==
    /\ LockAvailable(txn)
    /\ event_payment' =
          SetAttendees(event_payment, txn, CoerceAttendees(attendees_in, 1), clock)
    /\ UNCHANGED <<event_checkin, checkin_seq, clock, rowLock, pc, call,
                   txStart, pay, tx, batches, remaining_to_rewind, result, http,
                   race, stamp, expected, req, base_row, row, form>>

\* the cached column event_payment.number_checked_in, kept equal to the
\* rollup by the triggers on event_checkin
CachedCheckedIn(txn) == RollupCounts(event_checkin, event_payment[txn].id)

\* the re-issue page re-loads the selected record (SELECT * ... LIMIT 1)
ReissueSelect(txn) ==
    /\ form = NoForm
    /\ form' = [page |-> "reissue", txn |-> txn,
                num_attendees |->
                    CoerceAttendees(event_payment[txn].number_of_attendees, 1),
                num_checked_in |-> CoerceAttendees(CachedCheckedIn(txn), 0)]
    /\ UNCHANGED <<event_payment, event_checkin, checkin_seq, clock, rowLock, pc,
                   call, txStart, pay, tx, batches, remaining_to_rewind, result,
                   http, race, stamp, expected, req, base_row, row>>

\* the "Save changes" button of the re-issue page: keeps the previous count
\* when the new one is below the checked-in count it loaded
ReissueSave(number_of_attendees_in) ==
    /\ form # NoForm
    /\ LockAvailable(form.txn)
    /\ LET coerced == CoerceAttendees(number_of_attendees_in, form.num_attendees)
           new_attendees == IF coerced < form.num_checked_in
                            THEN form.num_attendees ELSE coerced
       IN  event_payment' = SetAttendees(event_payment, form.txn, new_attendees, clock)
    /\ form' = NoForm
    /\ UNCHANGED <<event_checkin, checkin_seq, clock, rowLock, pc, call,
                   txStart, pay, tx, batches, remaining_to_rewind, result, http,
                   race, stamp, expected, req, base_row, row>>

\* "Generate QR Codes for Selected" of the admin page, for one selected row
\* of the edited grid: int(value or 0), negative values become 0
AdminGenerate(txn, grid_value) ==
    /\ LockAvailable(txn)
    /\ event_payment' = SetAttendees(event_payment, txn, Max(0, grid_value), clock)
    /\ UNCHANGED <<event_checkin, checkin_seq, clock, rowLock, pc, call,
                   txStart, pay, tx, batches, remaining_to_rewind, result, http,
                   race, stamp, expected, req, base_row, row, form>>

\* ------------------------------------------------------------- HTTP surface
Key == <<"k">>
Bearer == <<"B", "e", "a", "r", "e", "r", " ">>

\* what the environment may hold as VERIFIER_API_KEY: unset, empty, a key,
\* a key with a leading blank
Expecteds == {None, <<>>, Key, <<" ">> \o Key}

\* X-API-Key headers: absent, empty, the key, the key in blanks, a wrong key
XApiKeys == {None, <<>>, Key, <<" ">> \o Key \o <<" ">>, <<"x">>}

\* Authorization headers: absent, the key as Bearer / BEARER / Basic
\* credentials, after two blanks, and a wrong key
Authorizations ==
    {None, Bearer \o Key, <<"B", "E", "A", "R", "E", "R", " ">> \o Key,
     <<"B", "a", "s", "i", "c", " ">> \o Key, Bearer \o <<" ">> \o Key,
     Bearer \o <<"x">>}

\* Python truthiness of an optional string
Truthy(v) == v # None /\ v # <<>>

\* the token require_api_key compares, lines 56-60
Token(x_api_key, authorization) ==
    IF Truthy(x_api_key) THEN Strip(x_api_key)
    ELSE IF Truthy(authorization) /\ StartsWith(Lower(authorization), Lower(Bearer))
    THEN Strip(AfterFirstSpace(authorization))
    ELSE None

\* faulty variant: a request without any token passes
RequireApiKey_MissingPasses(exp, x_api_key, authorization) ==
    \/ ~Truthy(exp)
    \/ ~Truthy(Token(x_api_key, authorization))
    \/ Token(x_api_key, authorization) = exp

\* require_api_key: TRUE when it returns, FALSE when it raises 401
RequireApiKey(exp, x_api_key, authorization) ==
    \/ ~Truthy(exp)
    \/ /\ Truthy(Token(x_api_key, authorization))
       /\ Token(x_api_key, authorization) = exp

Answer(status, detail) ==
    [status |-> status, detail |-> detail, checked_in |-> 0, remaining |-> 0]

Unauthorized == Answer(401, Msg("Unauthorized", <<>>))

Request(endpoint, x_api_key, authorization) ==
    [endpoint |-> endpoint, x_api_key |-> x_api_key, authorization |-> authorization]

\* GET /api/health: no dependency, no database access
Health(p) ==
    /\ pc[p] = "idle"
    /\ req' = [req EXCEPT ![p] = Request("health", None, None)]
    /\ http' = [http EXCEPT ![p] = Answer(200, Msg("ok", <<>>))]
    /\ pc' = [pc EXCEPT ![p] = "resp"]
    /\ UNCHANGED <<event_payment, event_checkin, checkin_seq, clock, rowLock, call,
                   txStart, pay, tx, batches, remaining_to_rewind, result,
                   race, stamp, expected, base_row, row, form>>

\* GET /api/attendance/summary: require_api_key, then get_summary up to the
\* first select of fetch_attendance_row_by_txn (404 when it finds no row)
GetSummary(p, x_api_key, authorization, txn) ==
    /\ pc[p] = "idle"
    /\ req' = [req EXCEPT ![p] = Request("summary", x_api_key, authorization)]
    /\ IF ~RequireApiKey(expected, x_api_key, authorization)
       THEN /\ http' = [http EXCEPT ![p] = Unauthorized]
            /\ pc' = [pc EXCEPT ![p] = "resp"]
            /\ UNCHANGED <<call, base_row>>
       ELSE IF ~SelectBase(txn).found
       THEN /\ http' = [http EXCEPT ![p] = Answer(404, Msg("Transaction not found", <<>>))]
            /\ call' = [call EXCEPT ![p] = [NoCall EXCEPT !.txn = txn]]
            /\ pc' = [pc EXCEPT ![p] = "resp"]
            /\ UNCHANGED base_row
       ELSE /\ base_row' = [base_row EXCEPT ![p] = SelectBase(txn)]
            /\ call' = [call EXCEPT ![p] = [NoCall EXCEPT !.txn = txn]]
            /\ pc' = [pc EXCEPT ![p] = "rollup"]
            /\ UNCHANGED http
    /\ UNCHANGED <<event_payment, event_checkin, checkin_seq, clock, rowLock,
                   txStart, pay, tx, batches, remaining_to_rewind, result,
                   race, stamp, expected, row, form>>

\* get_summary, lines 108-115: the Summary built from the row
GetSummaryReturn(p) ==
    /\ pc[p] = "row"
    /\ req[p].endpoint = "summary"
    /\ http' = [http EXCEPT ![p] =
          [status |-> 200, detail |-> Msg("", <<>>),
           number_of_attendees |-> row[p].number_of_attendees,
           checked_in |-> row[p].number_checked_in,
           remaining |-> row[p].remaining,
           all_attendees_checked_in |-> row[p].all_attendees_checked_in]]
    /\ pc' = [pc EXCEPT ![p] = "resp"]
    /\ UNCHANGED <<event_payment, event_checkin, checkin_seq, clock, rowLock, call,
                   txStart, pay, tx, batches, remaining_to_rewind, result,
                   race, stamp, expected, req, base_row, row, form>>

\* POST /api/checkin: require_api_key, then post_checkin calls update_checkins
PostCheckin(p, x_api_key, authorization, txn, delta, vid, nts) ==
    IF RequireApiKey(expected, x_api_key, authorization)
    THEN /\ UpdateCheckins(p, txn, delta, vid, nts)
         /\ req' = [req EXCEPT ![p] = Request("checkin", x_api_key, authorization)]
    ELSE /\ pc[p] = "idle"
         /\ req' = [req EXCEPT ![p] = Request("checkin", x_api_key, authorization)]
         /\ http' = [http EXCEPT ![p] = Unauthorized]
         /\ pc' = [pc EXCEPT ![p] = "resp"]
         /\ UNCHANGED <<event_payment, event_checkin, checkin_seq, clock, rowLock,
                        call, txStart, pay, tx, batches, remaining_to_rewind,
                        result, race, stamp, expected, base_row, row, form>>

\* post_checkin, lines 134-141: 400 on a failure result, else the first
\* select of fetch_attendance_row_by_txn (404 when it finds no row)
PostCheckinResult(p) ==
    /\ pc[p] = "ret"
    /\ req[p].endpoint = "checkin"
    /\ IF ~result[p].ok
       THEN /\ http' = [http EXCEPT ![p] = Answer(400, result[p].msg)]
            /\ pc' = [pc EXCEPT ![p] = "resp"]
            /\ UNCHANGED base_row
       ELSE IF ~SelectBase(call[p].txn).found
       THEN /\ http' = [http EXCEPT ![p] = Answer(404, Msg("Transaction not found", <<>>))]
            /\ pc' = [pc EXCEPT ![p] = "resp"]
            /\ UNCHANGED base_row
       ELSE /\ base_row' = [base_row EXCEPT ![p] = SelectBase(call[p].txn)]
            /\ pc' = [pc EXCEPT ![p] = "rollup"]
            /\ UNCHANGED http
    /\ UNCHANGED <<event_payment, event_checkin, checkin_seq, clock, rowLock, call,
                   txStart, pay, tx, batches, remaining_to_rewind, result,
                   race, stamp, expected, req, row, form>>

\* post_checkin, lines 143-147: the CheckinResp built from the row
PostCheckinReturn(p) ==
    /\ pc[p] = "row"
    /\ req[p].endpoint = "checkin"
    /\ http' = [http EXCEPT ![p] =
          [status |-> 200, detail |-> result[p].msg,
           checked_in |-> row[p].number_checked_in,
           remaining |-> row[p].remaining]]
    /\ pc' = [pc EXCEPT ![p] = "resp"]
    /\ UNCHANGED <<event_payment, event_checkin, checkin_seq, clock, rowLock, call,
                   txStart, pay, tx, batches, remaining_to_rewind, result,
                   race, stamp, expected, req, base_row, row, form>>

\* the caller has its answer (the in-process caller right after
\* update_checkins returned) and is free for its next request
Done(p) ==
    /\ \/ pc[p] \in {"resp", "raised"}
       \/ pc[p] \in {"ret", "row"} /\ req[p] = NoReq
    /\ pc' = [pc EXCEPT ![p] = "idle"]
    /\ call' = [call EXCEPT ![p] = NoCall]
    /\ txStart' = [txStart EXCEPT ![p] = 0]
    /\ pay' = [pay EXCEPT ![p] = NoPay]
    /\ result' = [result EXCEPT ![p] = NoResult]
    /\ http' = [http EXCEPT ![p] = NoHttp]
    /\ race' = <<>>
    /\ batches' = [batches EXCEPT ![p] = <<>>]
    /\ remaining_to_rewind' = [remaining_to_rewind EXCEPT ![p] = 0]
    /\ req' = [req EXCEPT ![p] = NoReq]
    /\ base_row' = [base_row EXCEPT ![p] = NoBase]
    /\ row' = [row EXCEPT ![p] = NoRow]
    /\ UNCHANGED <<event_payment, event_checkin, checkin_seq, clock, rowLock, tx,
                   stamp, expected, form>>

\* a caller calls update_checkins in-process
CallsBy(callers, txns, verifiers, notes) ==
    \E p \in callers, txn \in txns, delta \in Deltas, vid \in verifiers, nts \in notes :
        UpdateCheckins(p, txn, delta, vid, nts) /\ UNCHANGED req

Calls(txns, verifiers, notes) == CallsBy(Procs, txns, verifiers, notes)

\* the callers' requests make their steps
Steps ==
    \/ \E p \in Procs : FetchPaymentByTxn(p)
    \/ \E p \in Procs : AdmitCheck(p)
    \/ \E p \in Procs : AdmitReturn(p)
    \/ \E p \in Procs : RewindSelect(p)
    \/ \E p \in Procs : RewindStep(p)
    \/ \E p \in Procs : RewindReturn(p)
    \/ \E p \in Procs : Done(p)

Failures == \E p \in Procs : Raise(p)

\* requests to POST /api/checkin
CheckinRequests(callers, keys, auths, txns) ==
    \E p \in callers, x_api_key \in keys, authorization \in auths, txn \in txns,
       delta \in Deltas :
        PostCheckin(p, x_api_key, authorization, txn, delta, Null, Null)

\* requests to GET /api/attendance/summary
SummaryRequests(callers, keys, auths, txns) ==
    \E p \in callers, x_api_key \in keys, authorization \in auths, txn \in txns :
        GetSummary(p, x_api_key, authorization, txn)

\* requests to GET /api/health
HealthRequests(callers) == \E p \in callers : Health(p)

\* the handlers' later steps
Http ==
    \/ \E p \in Procs : PostCheckinResult(p)
    \/ \E p \in Procs : PostCheckinReturn(p)
    \/ \E p \in Procs : GetSummaryReturn(p)
    \/ \E p \in Procs : FetchRollup(p)

\* Spec: two verifier clients working on one ticket (and asking for an
\* unknown one), any step of a transaction may fail
Next ==
    \/ Calls({"T1", UnknownTxn}, {Null}, {Null})
    \/ Steps
    \/ Failures

Spec == Init /\ [][Next]_vars

\* SpecClock: the same callers while the database clock advances, so that
\* created_at differs between batches; no failures
NextClock ==
    \/ Tick
    \/ Calls({"T1"}, {Null}, {Null})
    \/ Steps

SpecClock == Init /\ [][NextClock]_vars

\* SpecHttp: one caller in-process, the other a client of the HTTP API
\* (no API key configured); no failures
NextHttp ==
    \/ CallsBy({"p1"}, {"T1", UnknownTxn}, {Null}, {Null})
    \/ CheckinRequests({"p2"}, {None}, {None}, {"T1", UnknownTxn})
    \/ SummaryRequests({"p2"}, {None}, {None}, {"T1", UnknownTxn})
    \/ Steps
    \/ Http

SpecHttp == Init /\ [][NextHttp]_vars

\* counts a staff member may enter
AttendeeInputs == 0 .. MaxAttendees

\* in-process queries
Lookups(callers, txns) == \E p \in callers, txn \in txns : FetchAttendanceRowByTxn(p, txn)

Searches(callers) == \E p \in callers, q \in Queries : FetchAttendanceByNameOrEmail(p, q)

Edits(txns) ==
    \/ \E txn \in txns, n \in AttendeeInputs : IssueScreenSave(txn, n)
    \/ \E txn \in txns : ReissueSelect(txn)
    \/ \E n \in AttendeeInputs : ReissueSave(n)
    \/ \E txn \in txns, n \in AttendeeInputs : AdminGenerate(txn, n)

\* SpecQuery: one verifier working on a ticket of any size while another
\* caller looks tickets up and searches
InitQuery ==
    \E n \in 0 .. MaxAttendees : InitState(Imported(n, 1), None)

NextQuery ==
    \/ CallsBy({"p1"}, {"T1"}, {Null}, {Null})
    \/ Lookups({"p2"}, {"T1", UnknownTxn})
    \/ Searches({"p2"})
    \/ \E p \in Procs : FetchRollup(p)
    \/ Steps

SpecQuery == InitQuery /\ [][NextQuery]_vars

\* SpecEdit: one caller working on a ticket and looking it up while staff
\* edit the ticket
NextEdit ==
    \/ CallsBy({"p1"}, {"T1"}, {Null}, {Null})
    \/ Lookups({"p1"}, {"T1"})
    \/ \E p \in Procs : FetchRollup(p)
    \/ Edits({"T1"})
    \/ Steps

SpecEdit == Init /\ [][NextEdit]_vars

\* SpecState: one caller working on either ticket or an unknown one, looking
\* up and searching, while staff edit the first ticket on the issue screen
\* and the admin page
NextState ==
    \/ CallsBy({"p1"}, Txns, {Null}, {Null})
    \/ Lookups({"p1"}, {"T1"})
    \/ Searches({"p1"})
    \/ \E p \in Procs : FetchRollup(p)
    \/ \E n \in AttendeeInputs : IssueScreenSave("T1", n)
    \/ \E n \in AttendeeInputs : AdminGenerate("T1", n)
    \/ Steps

SpecState == Init /\ [][NextState]_vars

\* SpecTickets: two callers working on two tickets
NextTickets ==
    \/ Calls(KnownTxns, {Null}, {Null})
    \/ Steps

SpecTickets == Init /\ [][NextTickets]_vars

\* SpecAudit: one caller passing a verifier_id and notes, the other passing
\* none, on one ticket
NextAudit ==
    \/ CallsBy({"p1"}, {"T1"}, {"v1"}, {"n1"})
    \/ CallsBy({"p2"}, {"T1"}, {Null}, {Null})
    \/ Steps

SpecAudit == Init /\ [][NextAudit]_vars

\* SpecLive: one caller on the first ticket, whose transaction may fail at
\* any point, the other on either ticket.  A caller inside update_checkins
\* keeps running (weak fairness of its steps), and a caller waiting for a
\* row lock gets it once it is released often enough: PostgreSQL queues the
\* waiters of a row lock (strong fairness)
NextLive ==
    \/ CallsBy({"p1"}, {"T1"}, {Null}, {Null})
    \/ CallsBy({"p2"}, KnownTxns, {Null}, {Null})
    \/ Steps
    \/ Raise("p1")

Fairness ==
    \A p \in Procs :
        /\ SF_vars(FetchPaymentByTxn(p))
        /\ WF_vars(AdmitCheck(p))
        /\ WF_vars(AdmitReturn(p))
        /\ WF_vars(RewindSelect(p))
        /\ WF_vars(RewindStep(p))
        /\ WF_vars(RewindReturn(p))

SpecLive == Init /\ [][NextLive]_vars /\ Fairness

\* SpecAuth: one client of the HTTP API sending any of the headers, with any
\* VERIFIER_API_KEY in the environment
InitAuth == \E key \in Expecteds : InitState(Imported(MaxAttendees, 1), key)

NextAuth ==
    \/ CheckinRequests({"p1"}, XApiKeys, Authorizations, {"T1"})
    \/ SummaryRequests({"p1"}, XApiKeys, Authorizations, {"T1"})
    \/ HealthRequests({"p1"})
    \/ Steps
    \/ Http

SpecAuth == InitAuth /\ [][NextAuth]_vars

\* ------------------------------------------------------------------ claims
Purchased(txn) == event_payment[txn].number_of_attendees

ActiveSum(txn) == SumCounts(ActiveBatches(event_checkin, event_payment[txn].id))

\* what get_ticket answers in the committed state
Ticket(txn) == FetchAttendanceRow(event_payment, event_checkin, txn)

\* C1: for every ticket, in every reachable state, under any interleaving of
\* the callers, the sum of the counts of its active batches is at least 0
\* and at most the ticket's number_of_attendees.
C1_RollupWithinBounds ==
    \A t \in KnownTxns : 0 <= ActiveSum(t) /\ ActiveSum(t) <= Purchased(t)

\* the ticket is full again after a rewind, with both callers having admitted
C1_Witness ==
    /\ ActiveSum("T1") = Purchased("T1")
    /\ \E r \in event_checkin : r.revoked_yn
    /\ Cardinality({r \in event_checkin : ~r.revoked_yn}) >= 2

\* C2: two admits that wait for the same ticket at the same time, each no
\* larger than the remaining count but together larger: when both have
\* returned, exactly one succeeded, the other was rejected with "Only
\* {remaining} remaining.", and the checked-in total is within the purchased
\* count.
RacingAdmits ==
    /\ race # <<>>
    /\ \A p \in Procs :
          /\ pc[p] = "ret"
          /\ call[p].delta > 0
          /\ call[p].delta <= race[1]
    /\ \E p, q \in Procs : p # q /\ call[p].delta + call[q].delta > race[1]

C2_ExactlyOneRacingAdmitSucceeds ==
    RacingAdmits =>
        /\ \E p \in Procs :
              /\ result[p].ok
              /\ \A q \in Procs \ {p} :
                    /\ ~result[q].ok
                    /\ result[q].msg.fmt = "Only {remaining} remaining."
        /\ \A t \in KnownTxns : ActiveSum(t) <= Purchased(t)

C2_Witness ==
    /\ RacingAdmits
    /\ race[1] < Purchased("T1")
    /\ \E p \in Procs : result[p].ok /\ call[p].delta < race[1]

\* C3: concurrent calls on one ticket are serialized by its row lock.  A
\* caller is between its locking select and its return only while it holds
\* the lock of its ticket, and the rows and the result with which a call
\* returns are those of running the whole call alone, in one step, on the
\* rows committed at that moment; a successful call moves the checked-in
\* total by exactly its delta, so no delta is lost.
RECURSIVE SerialRewind(_, _, _, _)
SerialRewind(list, m, vid, ts) ==
    IF list = <<>> \/ m <= 0 THEN {}
    ELSE LET b == Head(list)
         IN  IF b.count_checked_in <= m
             THEN {RevokeBatch(b, vid, ts)}
                     \cup SerialRewind(Tail(list), m - b.count_checked_in, vid, ts)
             ELSE {ReduceBatch(b, b.count_checked_in - m)}

SerialOutcome(rows, c, ts, id) ==
    IF c.txn \notin DOMAIN event_payment
    THEN [rows |-> rows, ok |-> FALSE, msg |-> Msg("Transaction not found.", <<>>)]
    ELSE
    LET pid == event_payment[c.txn].id
        total == event_payment[c.txn].number_of_attendees
        current == SumCounts(ActiveBatches(rows, pid))
    IN  IF c.delta > 0
        THEN IF c.delta > total - current
             THEN [rows |-> rows, ok |-> FALSE,
                   msg |-> Msg("Only {remaining} remaining.", <<total - current>>)]
             ELSE [rows |-> rows \cup {NewBatch(id, pid, c.delta, c.verifier_id, c.notes, ts)},
                   ok |-> TRUE,
                   msg |-> Msg("Checked in {delta}. Now {new_rollup}/{total}.",
                               <<c.delta, current + c.delta, total>>)]
        ELSE IF 0 - c.delta > current
             THEN [rows |-> rows, ok |-> FALSE,
                   msg |-> Msg("Cannot rewind {to_rewind}; only {current_checked} already checked in.",
                               <<0 - c.delta, current>>)]
             ELSE LET written == SerialRewind(OrderNewestFirst(ActiveBatches(rows, pid)),
                                              0 - c.delta, c.verifier_id, ts)
                  IN  [rows |-> {r \in rows : \A w \in written : w.id # r.id} \cup written,
                       ok |-> TRUE,
                       msg |-> Msg("Rewound {to_rewind}. Now {new_rollup}/{total}.",
                                   <<0 - c.delta, current + c.delta, total>>)]

HoldsLock(p) == call[p].txn \in DOMAIN rowLock /\ rowLock[call[p].txn] = p

InsertedId(p) == IF tx[p] = {} THEN checkin_seq ELSE (CHOOSE w \in tx[p] : TRUE).id

C3_ReturnIsSerial(p) ==
    (pc[p] \in InTransaction /\ pc'[p] = "ret") =>
        LET o == SerialOutcome(event_checkin, call[p], txStart[p], InsertedId(p))
        IN  /\ event_checkin' = o.rows
            /\ result'[p] = [ok |-> o.ok, msg |-> o.msg]
            /\ o.ok => ActiveSum(call[p].txn)' = ActiveSum(call[p].txn) + call[p].delta

C3_Serialized ==
    /\ [](\A p \in Procs : pc[p] \in InTransaction \ {"lock"} => HoldsLock(p))
    /\ [][\A p \in Procs : C3_ReturnIsSerial(p)]_vars

\* one caller is in the middle of a rewind, the other waits for the same row
C3_Witness ==
    \E p, q \in Procs :
        /\ pc[p] = "loop" /\ tx[p] # {} /\ batches[p] # <<>>
        /\ pc[q] = "lock" /\ call[q].txn = call[p].txn
        /\ call[q].delta > Ticket(call[q].txn).remaining

\* the remaining count of a ticket, from its rows
RemainingOf(txn) == Purchased(txn) - ActiveSum(txn)

\* C4: an admit on an existing ticket whose delta is at most the remaining
\* count returns success, and get_ticket then shows checked-in exactly delta
\* higher and remaining exactly delta lower than before.
C4_AdmitStep(p) ==
    (/\ pc[p] \in {"admit", "inserted"}
     /\ pc'[p] = "ret"
     /\ call[p].delta > 0
     /\ call[p].delta <= RemainingOf(call[p].txn))
    => /\ result'[p].ok
       /\ ActiveSum(call[p].txn)' = ActiveSum(call[p].txn) + call[p].delta
       /\ Ticket(call[p].txn)'.number_checked_in
             = Ticket(call[p].txn).number_checked_in + call[p].delta
       /\ Ticket(call[p].txn)'.remaining
             = Ticket(call[p].txn).remaining - call[p].delta

C4_AdmitWithinRemaining == [][\A p \in Procs : C4_AdmitStep(p)]_vars

\* an admit of exactly the remaining count has filled the ticket
C4_Witness ==
    \E p \in Procs :
        /\ pc[p] = "ret" /\ result[p].ok /\ call[p].delta > 0
        /\ call[p].txn \in KnownTxns
        /\ ActiveSum(call[p].txn) = Purchased(call[p].txn)
        /\ Cardinality(ActiveBatches(event_checkin, pay[p].id)) >= 2

\* C5: an admit whose delta is larger than the remaining count returns a
\* failure whose message reports the remaining count, inserts no batch and
\* leaves what get_ticket answers unchanged.
C5_RejectStep(p) ==
    (/\ pc[p] = "admit"
     /\ pc'[p] \notin {"admit", "raised"}
     /\ call[p].delta > RemainingOf(call[p].txn))
    => /\ pc'[p] = "ret"
       /\ result'[p] = [ok |-> FALSE,
                        msg |-> Msg("Only {remaining} remaining.",
                                    <<RemainingOf(call[p].txn)>>)]
       /\ event_checkin' = event_checkin
       /\ checkin_seq' = checkin_seq
       /\ tx'[p] = {}
       /\ Ticket(call[p].txn)' = Ticket(call[p].txn)

C5_AdmitBeyondRemainingRejected == [][\A p \in Procs : C5_RejectStep(p)]_vars

\* an admit of 2 was refused with one slot left
C5_Witness ==
    \E p \in Procs :
        /\ pc[p] = "ret" /\ ~result[p].ok /\ call[p].delta = MaxDelta
        /\ call[p].txn \in KnownTxns
        /\ result[p].msg = Msg("Only {remaining} remaining.", <<1>>)
        /\ RemainingOf(call[p].txn) = 1

\* C6: a rewind on an existing ticket whose magnitude is at most the
\* checked-in count returns success, and the sum of the active batch counts
\* is then exactly that magnitude lower.
C6_RewindStep(p) ==
    (/\ pc[p] \in {"rewind", "loop"}
     /\ pc'[p] = "ret"
     /\ call[p].delta < 0
     /\ Abs(call[p].delta) <= ActiveSum(call[p].txn))
    => /\ result'[p].ok
       /\ ActiveSum(call[p].txn)' = ActiveSum(call[p].txn) - Abs(call[p].delta)
       /\ Ticket(call[p].txn)'.number_checked_in
             = Ticket(call[p].txn).number_checked_in - Abs(call[p].delta)

C6_RewindWithinCheckedIn == [][\A p \in Procs : C6_RewindStep(p)]_vars

\* a rewind of 2 has returned and left one attendee checked in
C6_Witness ==
    \E p \in Procs :
        /\ pc[p] = "ret" /\ result[p].ok /\ call[p].delta = 0 - MaxDelta
        /\ call[p].txn \in KnownTxns
        /\ ActiveSum(call[p].txn) = 1
        /\ \E r \in event_checkin : r.revoked_yn

\* C7: a rewind whose magnitude is larger than the checked-in count returns
\* a failure, revokes and reduces no batch and leaves checked-in unchanged.
C7_RejectStep(p) ==
    (/\ pc[p] = "rewind"
     /\ pc'[p] \notin {"rewind", "raised"}
     /\ Abs(call[p].delta) > ActiveSum(call[p].txn))
    => /\ pc'[p] = "ret"
       /\ ~result'[p].ok
       /\ result'[p].msg.args = <<Abs(call[p].delta), ActiveSum(call[p].txn)>>
       /\ event_checkin' = event_checkin
       /\ tx'[p] = {}
       /\ Ticket(call[p].txn)' = Ticket(call[p].txn)

C7_RewindBeyondCheckedInRejected == [][\A p \in Procs : C7_RejectStep(p)]_vars

\* a rewind of 2 was refused with one attendee checked in
C7_Witness ==
    \E p \in Procs :
        /\ pc[p] = "ret" /\ ~result[p].ok /\ call[p].delta = 0 - MaxDelta
        /\ call[p].txn \in KnownTxns
        /\ ActiveSum(call[p].txn) = 1
        /\ result[p].msg = Msg("Cannot rewind {to_rewind}; only {current_checked} already checked in.",
                               <<MaxDelta, 1>>)

\* C8: a successful rewind of magnitude m consumes the active batches of the
\* ticket newest first (created_at descending, ties by id descending).  With
\* n(b) the sum of the counts of the active batches newer than b: b is
\* revoked with its count kept when n(b) + count <= m, stays active with
\* count reduced to n(b) + count - m when n(b) < m < n(b) + count, and is
\* untouched when n(b) >= m; at most one batch is reduced, and no other row
\* changes.
C8_NewerThan(b, S) ==
    {a \in S : \/ a.created_at > b.created_at
               \/ a.created_at = b.created_at /\ a.id > b.id}

C8_RewindStep(p) ==
    (pc[p] = "loop" /\ pc'[p] = "ret") =>
        LET m == Abs(call[p].delta)
            act == ActiveBatches(event_checkin, pay[p].id)
            After(b) == CHOOSE r \in event_checkin' : r.id = b.id
            Before(b) == SumCounts(C8_NewerThan(b, act))
        IN  /\ \A b \in act : \E r \in event_checkin' : r.id = b.id
            /\ \A b \in act :
                  /\ Before(b) + b.count_checked_in <= m =>
                        /\ After(b).revoked_yn
                        /\ After(b).count_checked_in = b.count_checked_in
                  /\ (Before(b) < m /\ m < Before(b) + b.count_checked_in) =>
                        /\ ~After(b).revoked_yn
                        /\ After(b).count_checked_in
                              = Before(b) + b.count_checked_in - m
                  /\ Before(b) >= m => After(b) = b
            /\ Cardinality({b \in act : /\ ~After(b).revoked_yn
                                        /\ After(b).count_checked_in # b.count_checked_in}) <= 1
            /\ \A r \in event_checkin \ act : r \in event_checkin'
            /\ Cardinality(event_checkin') = Cardinality(event_checkin)

C8_RewindNewestFirst == [][\A p \in Procs : C8_RewindStep(p)]_vars

\* three batches, a rewind of 2: the newest (count 1, and newest by
\* created_at although not by id) is revoked, the next is reduced to 1, the
\* oldest was never visited
C8_Witness ==
    \E p \in Procs :
        /\ pc[p] = "ret" /\ result[p].ok /\ call[p].delta = 0 - MaxDelta
        /\ Len(batches[p]) = 1
        /\ Cardinality(event_checkin) = 3
        /\ ActiveSum(call[p].txn) >= 2
        /\ \E r \in event_checkin :
              /\ r.revoked_yn /\ r.count_checked_in = 1
              /\ \A x \in event_checkin \ {r} : ~x.revoked_yn
              /\ \E a \in event_checkin : a.id > r.id /\ a.created_at < r.created_at

\* C9: update_checkins is atomic.  A step in which a call fails leaves the
\* committed rows as they were, discards the call's writes and releases its
\* lock; while a caller holds the lock of a ticket and does not return, the
\* committed rows of that ticket do not change; and the committed rows
\* change only in the step in which a call returns success, by all of the
\* call's writes at once, a rewind having nothing left to rewind.
TicketRows(rows, pid) == {r \in rows : r.payment_id = pid}

C9_Step ==
    /\ \A p \in Procs :
          (pc[p] # "raised" /\ pc'[p] = "raised") =>
              /\ event_checkin' = event_checkin
              /\ tx'[p] = {}
              /\ \A t \in KnownTxns : rowLock'[t] # p
    /\ \A p \in Procs :
          (pc[p] \in InTransaction \ {"lock"} /\ pc'[p] # "ret") =>
              TicketRows(event_checkin', pay[p].id) = TicketRows(event_checkin, pay[p].id)
    /\ event_checkin' # event_checkin =>
          \E p \in Procs :
              /\ pc[p] \in {"inserted", "loop"}
              /\ pc'[p] = "ret"
              /\ result'[p].ok
              /\ event_checkin' = View(p)
              /\ pc[p] = "loop" => remaining_to_rewind[p] = 0

C9_Atomic == [][C9_Step]_vars

\* a rewind failed after it revoked one batch and before it touched the next
C9_Witness ==
    \E p \in Procs :
        /\ pc[p] = "raised" /\ call[p].delta < 0
        /\ 0 < remaining_to_rewind[p]
        /\ remaining_to_rewind[p] < Abs(call[p].delta)
        /\ batches[p] # <<>>
        /\ ActiveSum(call[p].txn) >= Abs(call[p].delta)
        /\ tx[p] = {}

C10_Step(p) ==
    /\ (pc[p] = "idle" /\ pc'[p] \notin {"idle", "resp"} /\ req'[p].endpoint # "summary"
        /\ call'[p].delta = 0) =>
          /\ pc'[p] = "ret"
          /\ result'[p] = [ok |-> TRUE, msg |-> Msg("No change.", <<>>)]
          /\ rowLock' = rowLock
          /\ tx' = tx
          /\ event_checkin' = event_checkin
          /\ event_payment' = event_payment
          /\ checkin_seq' = checkin_seq
    /\ (pc[p] # "ret" /\ pc'[p] = "ret" /\ call'[p].delta = 0) => pc[p] = "idle"
    /\ (/\ pc[p] \in {"ret", "rollup", "row"} /\ pc'[p] # pc[p]
        /\ req[p].endpoint = "checkin" /\ call[p].delta = 0) =>
          /\ event_checkin' = event_checkin
          /\ event_payment' = event_payment
          /\ rowLock' = rowLock
          /\ pc[p] = "ret" =>
                IF call[p].txn \in KnownTxns
                THEN pc'[p] = "rollup"
                ELSE pc'[p] = "resp" /\ http'[p].status = 404
          /\ pc[p] = "rollup" =>
                /\ row'[p].number_checked_in = ActiveSum(call[p].txn)
                /\ row'[p].remaining = RemainingOf(call[p].txn)
          /\ pc[p] = "row" =>
                /\ pc'[p] = "resp"
                /\ http'[p].status = 200
                /\ http'[p].detail = Msg("No change.", <<>>)
                /\ http'[p].checked_in = row[p].number_checked_in
                /\ http'[p].remaining = row[p].remaining

C11_Step(p) ==
    (/\ pc[p] = "lock"
     /\ call[p].txn \notin DOMAIN event_payment
     /\ pc'[p] \notin {"lock", "raised"})
    => /\ call[p].delta # 0
       /\ pc'[p] = "ret"
       /\ result'[p] = [ok |-> FALSE, msg |-> Msg("Transaction not found.", <<>>)]
       /\ event_checkin' = event_checkin
       /\ event_payment' = event_payment
       /\ checkin_seq' = checkin_seq
       /\ tx' = tx
       /\ rowLock' = rowLock

C11_UnknownTicketNotFound ==
    /\ [](\A p \in Procs :
            pc[p] \in InTransaction \ {"lock"} => call[p].txn \in DOMAIN event_payment)
    /\ [](\A p \in Procs :
            (pc[p] = "ret" /\ call[p].delta # 0 /\ call[p].txn \notin DOMAIN event_payment)
                => ~result[p].ok)
    /\ [][\A p \in Procs : C11_Step(p)]_vars

\* a rewind on an unknown ticket came back not found while the other caller
\* was in the middle of a rewind on a ticket with batches
C11_Witness ==
    \E p, q \in Procs :
        /\ pc[p] = "ret" /\ call[p].txn = UnknownTxn /\ call[p].delta < 0
        /\ result[p] = [ok |-> FALSE, msg |-> Msg("Transaction not found.", <<>>)]
        /\ pc[q] = "loop" /\ tx[q] # {} /\ HoldsLock(q)
        /\ event_checkin # {}

\* C12: POST /api/checkin answers 400 when the delta is out of bounds and 404
\* when the ticket is unknown, GET /api/attendance/summary answers 404 when
\* the ticket is unknown, and a 200 is given only when the ledger call
\* succeeded.
C12_HttpStatuses ==
    \A p \in Procs :
        (pc[p] = "resp" /\ http[p].status # 401) =>
            /\ (req[p].endpoint = "checkin" /\ call[p].txn \notin DOMAIN event_payment)
                  => http[p].status = 404
            /\ (/\ req[p].endpoint = "checkin"
                /\ call[p].txn \in DOMAIN event_payment
                /\ ~result[p].ok) => http[p].status = 400
            /\ (req[p].endpoint = "checkin" /\ http[p].status = 200) => result[p].ok
            /\ (req[p].endpoint = "summary" /\ call[p].txn \notin DOMAIN event_payment)
                  => http[p].status = 404
            /\ (req[p].endpoint = "summary" /\ call[p].txn \in DOMAIN event_payment)
                  => http[p].status = 200

\* the protected endpoints
C13_Protected == {"summary", "checkin"}

\* no table, lock or transaction is touched by this step
C13_NoLedgerAccess ==
    /\ event_checkin' = event_checkin
    /\ event_payment' = event_payment
    /\ checkin_seq' = checkin_seq
    /\ rowLock' = rowLock
    /\ tx' = tx
    /\ call' = call
    /\ base_row' = base_row
    /\ row' = row

\* C13 as claimed: with a secret configured, a request to a protected
\* endpoint without the correct key is answered 401, and a request that
\* carries the correct key in X-API-Key or in Authorization: Bearer is
\* served; with no secret configured every request is served.
C13_CarriesKey(r) ==
    \/ r.x_api_key \in {expected, <<" ">> \o expected \o <<" ">>}
    \/ r.authorization \in
          {Bearer \o expected, <<"B", "E", "A", "R", "E", "R", " ">> \o expected,
           Bearer \o <<" ">> \o expected}

C13_KeyInEitherHeaderServed ==
    \A p \in Procs :
        req[p].endpoint \in C13_Protected =>
            IF Truthy(expected) /\ ~C13_CarriesKey(req[p])
            THEN pc[p] = "resp" /\ http[p].status = 401
            ELSE http[p].status # 401

\* C13 as amended: with a secret configured, a request to a protected
\* endpoint is served exactly when its token equals the secret, the token
\* being the X-API-Key value without surrounding blanks when that header is
\* present and not empty, and else what follows "bearer " (in any letter
\* case) in Authorization, without surrounding blanks; so a wrong X-API-Key
\* is refused even next to a correct Bearer key.  Every other request is
\* answered 401 in its first step, before any ledger access.  GET
\* /api/health is answered 200 without a key and without ledger access.
\* With no secret configured (unset or empty) every request is served.
C13_Served(r) ==
    \/ expected \in {None, <<>>}
    \/ /\ expected = Key
       /\ IF r.x_api_key \notin {None, <<>>}
          THEN r.x_api_key \in {Key, <<" ">> \o Key \o <<" ">>}
          ELSE r.authorization \in
                  {Bearer \o Key, <<"B", "E", "A", "R", "E", "R", " ">> \o Key,
                   Bearer \o <<" ">> \o Key}

C13_Step(p) ==
    (pc[p] = "idle" /\ pc'[p] # "idle") =>
        /\ (req'[p].endpoint \in C13_Protected /\ ~C13_Served(req'[p])) =>
              /\ pc'[p] = "resp"
              /\ http'[p].status = 401
              /\ C13_NoLedgerAccess
        /\ (req'[p].endpoint \in C13_Protected /\ C13_Served(req'[p])) =>
              ~(pc'[p] = "resp" /\ http'[p].status = 401)
        /\ req'[p].endpoint = "health" =>
              /\ pc'[p] = "resp"
              /\ http'[p].status = 200
              /\ C13_NoLedgerAccess

C13_KeyRequired ==
    /\ [](\A p \in Procs :
            /\ (req[p].endpoint \in C13_Protected /\ ~C13_Served(req[p]))
                  => (pc[p] = "resp" /\ http[p].status = 401)
            /\ (req[p].endpoint \in C13_Protected /\ C13_Served(req[p]))
                  => http[p].status # 401
            /\ req[p].endpoint = "health" => pc[p] = "resp")
    /\ [][\A p \in Procs : C13_Step(p)]_vars

\* a check-in request with a wrong X-API-Key next to the correct Bearer key
\* was refused, after batches were admitted by a request with the key
C13_Witness ==
    \E p \in Procs :
        /\ expected = Key
        /\ pc[p] = "resp" /\ http[p].status = 401
        /\ req[p].endpoint = "checkin"
        /\ req[p].x_api_key = <<"x">>
        /\ req[p].authorization = Bearer \o Key
        /\ event_checkin # {}

\* C14: fetch_attendance_row_by_txn on a ticket without any batch returns
\* checked-in 0, remaining = number_of_attendees and not full, except that a
\* ticket with number_of_attendees = 0 is returned as full; in general the
\* row is full exactly when checked-in >= number_of_attendees.
C14_LookupStep(p) ==
    (pc[p] = "rollup" /\ pc'[p] = "row") =>
        LET txn == call[p].txn
            r == row'[p]
        IN  /\ TicketRows(event_checkin, event_payment[txn].id) = {} =>
                  /\ r.number_checked_in = 0
                  /\ r.remaining = Purchased(txn)
                  /\ r.all_attendees_checked_in = (Purchased(txn) = 0)
            /\ r.all_attendees_checked_in
                  = (r.number_checked_in >= r.number_of_attendees)

C14_FreshTicketProjection == [][\A p \in Procs : C14_LookupStep(p)]_vars

\* C15: in every reachable state, also after staff edits of
\* number_of_attendees, every projection returned by a lookup, a search or
\* the HTTP surface has checked-in + remaining = number_of_attendees.
C15_Consistent(r) == r.number_checked_in + r.remaining = r.number_of_attendees

C15_RemainingIsDifference ==
    \A p \in Procs :
        /\ (pc[p] = "row" /\ row[p].found /\ "data" \notin DOMAIN row[p])
              => C15_Consistent(row[p])
        /\ (pc[p] = "row" /\ row[p].found /\ "data" \in DOMAIN row[p])
              => \A i \in 1 .. Len(row[p].data) : C15_Consistent(row[p].data[i])
        /\ (pc[p] = "resp" /\ http[p].status = 200 /\ req[p].endpoint = "summary")
              => http[p].checked_in + http[p].remaining = http[p].number_of_attendees

\* C16: no edit of a ticket (re-issue form, issue-screen form, admin QR
\* generation) commits a number_of_attendees below the number of attendees
\* admitted in the ledger at that moment, also when an admit runs between
\* the form's load and its save.
C16_EditStep ==
    \A t \in KnownTxns :
        event_payment'[t].number_of_attendees # event_payment[t].number_of_attendees
            => event_payment'[t].number_of_attendees >= ActiveSum(t)'

C16_EditNeverBelowAdmitted == [][C16_EditStep]_vars

\* C17: the step in which an admit or a rewind returns success commits its
\* batches together with the stamp of the owning ticket's last_updated_at
\* (the timestamp of the call's transaction), and leaves the other tickets'
\* stamps alone; a call that is rejected (out of bounds, not found, zero
\* delta) changes no last_updated_at, and no step of a call before its
\* successful return changes one.
C17_Step ==
    /\ \A p \in Procs :
          (pc[p] \in InTransaction /\ pc'[p] = "ret" /\ result'[p].ok) =>
              /\ event_checkin' # event_checkin
              /\ event_payment'[call[p].txn].last_updated_at = txStart[p]
              /\ \A t \in KnownTxns \ {call[p].txn} : event_payment'[t] = event_payment[t]
    /\ \A p \in Procs :
          (pc[p] # "ret" /\ pc'[p] = "ret" /\ ~result'[p].ok) =>
              event_payment' = event_payment
    /\ \A p \in Procs :
          (pc[p] # "ret" /\ pc'[p] = "ret" /\ call'[p].delta = 0) =>
              event_payment' = event_payment
    /\ event_payment' # event_payment =>
          \E p \in Procs : pc[p] \in InTransaction /\ pc'[p] = "ret" /\ result'[p].ok

C17_LedgerMutationStampsTicket == [][C17_Step]_vars

\* a rewind that began after the clock advanced has returned success and
\* the ticket carries its timestamp
C17_Witness ==
    \E p \in Procs :
        /\ pc[p] = "ret" /\ result[p].ok /\ call[p].delta < 0
        /\ txStart[p] = 1
        /\ event_payment[call[p].txn].last_updated_at = 1
        /\ \E r \in event_checkin : r.revoked_yn /\ r.revoked_at = <<1>>

\* C18: a revoked batch adds nothing to the rollup, neither to the committed
\* one nor to the one any caller's transaction computes, and every step
\* leaves each committed revoked batch exactly as it is: same count, still
\* revoked, same revocation stamp; the batch list a rewind walks never holds
\* one and no transaction writes one.
C18_ContributesZero ==
    /\ \A r \in event_checkin : r.revoked_yn =>
          RollupCounts(event_checkin, r.payment_id) =
              RollupCounts(event_checkin \ {r}, r.payment_id)
    /\ \A p \in Procs : \A r \in View(p) : r.revoked_yn =>
          RollupCounts(View(p), r.payment_id) =
              RollupCounts(View(p) \ {r}, r.payment_id)

C18_Step ==
    /\ C18_ContributesZero
    /\ \A r \in event_checkin : r.revoked_yn =>
          /\ r \in event_checkin'
          /\ \A x \in event_checkin' : x.id = r.id => x = r
          /\ \A p \in Procs : pc'[p] = "loop" =>
                \A i \in 1 .. Len(batches'[p]) : batches'[p][i].id # r.id
          /\ \A p \in Procs : \A w \in tx'[p] : w.id # r.id

C19_State(rollup, purchased) ==
    {x \in {"NotStarted"} : rollup = 0}
        \cup {x \in {"Partial"} : 0 < rollup /\ rollup < purchased}
        \cup {x \in {"Full"} : rollup >= purchased}

C19_DerivedState(t) ==
    C19_State(RollupCounts(event_checkin, event_payment[t].id), Purchased(t))

C19_SuccessOn(t) ==
    \E p \in Procs :
        /\ pc[p] \in InTransaction /\ pc'[p] = "ret"
        /\ call[p].txn = t /\ result'[p].ok

C19_OnlyApplyDeltaStep ==
    \A t \in KnownTxns : C19_DerivedState(t)' # C19_DerivedState(t) => C19_SuccessOn(t)

C19_StateChangesOnlyByApplyDelta == [][C19_OnlyApplyDeltaStep]_vars

\* C19 as it holds: the derived state of a ticket changes only in the step
\* in which a call on that ticket returns success or in a step in which a
\* staff edit writes that ticket's number_of_attendees (without touching
\* any batch); queries, searches, rejected calls and calls on other tickets
\* never change it.
C19_EditOf(t) ==
    /\ \E n \in AttendeeInputs : event_payment' = SetAttendees(event_payment, t, n, clock)
    /\ UNCHANGED <<event_checkin, pc, tx, result>>

C19_Step ==
    \A t \in KnownTxns :
        C19_DerivedState(t)' # C19_DerivedState(t) => C19_SuccessOn(t) \/ C19_EditOf(t)

C19_StateChangesByApplyDeltaOrEdit == [][C19_Step]_vars

\* the first ticket is Partial after a staff edit lowered its
\* number_of_attendees, the second is Full by an admit, and a search that
\* lists both has just returned
C19_Witness ==
    /\ C19_DerivedState("T1") = {"Partial"}
    /\ Purchased("T1") < MaxAttendees
    /\ C19_DerivedState("T2") = {"Full"}
    /\ RollupCounts(event_checkin, event_payment["T2"].id) = 1
    /\ \E p \in Procs :
          pc[p] = "row" /\ row[p].found /\ "data" \in DOMAIN row[p] /\ Len(row[p].data) = 2

\* C20: a step of a lookup or of a search changes no ticket and no batch,
\* neither committed nor pending, and takes or releases no row lock; the
\* number_checked_in it returns for a ticket is the sum of the counts of the
\* active batches of that ticket committed at the moment the statement that
\* computes it runs, whatever another caller holding the ticket's lock has
\* written and not committed.
C20_QueryStep(p) ==
    \/ pc[p] = "idle" /\ pc'[p] \in {"rollup", "row"}
    \/ pc[p] = "rollup" /\ pc'[p] = "row"

C20_CommittedSum(pid) ==
    SumCounts({r \in event_checkin : r.payment_id = pid /\ ~r.revoked_yn})

C20_Step(p) ==
    C20_QueryStep(p) =>
        /\ UNCHANGED <<event_payment, event_checkin, tx, rowLock, checkin_seq, stamp>>
        /\ (pc'[p] = "row" /\ row'[p].found /\ "data" \notin DOMAIN row'[p]) =>
              row'[p].number_checked_in = C20_CommittedSum(base_row[p].r.id)
        /\ (pc'[p] = "row" /\ row'[p].found /\ "data" \in DOMAIN row'[p]) =>
              \A i \in 1 .. Len(row'[p].data) :
                  \E t \in KnownTxns :
                      /\ row'[p].data[i].transaction_id = t
                      /\ row'[p].data[i].number_checked_in =
                            C20_CommittedSum(event_payment[t].id)

C20_QueriesReadOnlyAndFresh == [][\A p \in Procs : C20_Step(p)]_vars

\* a lookup has returned the committed total of a ticket while another
\* caller holds that ticket's row lock with a write it has not committed,
\* which the returned total does not include
C20_Witness ==
    \E p, q \in Procs :
        /\ pc[p] = "row" /\ row[p].found /\ "data" \notin DOMAIN row[p]
        /\ row[p].number_checked_in >= 1
        /\ row[p].number_checked_in = C20_CommittedSum(event_payment["T1"].id)
        /\ rowLock["T1"] = q /\ tx[q] # {}
        /\ RollupCounts(View(q), event_payment["T1"].id) # row[p].number_checked_in

\* C21: a call waiting for the row lock of its ticket finds the lock free
\* unless another call on the same ticket is inside its transaction (a call
\* on a different ticket never makes it wait); a lock is held only by a
\* call on that very ticket, every pending write of a call belongs to its
\* own ticket, and a step changes the batches or the parent row of a ticket
\* only when it is the return of a call on that ticket.
C21_Holding == {"admit", "inserted", "rewind", "loop"}

C21_NoWaitAcrossTickets ==
    /\ \A p \in Procs :
          (/\ pc[p] = "lock"
           /\ call[p].txn \in KnownTxns
           /\ \A q \in Procs \ {p} :
                 ~(pc[q] \in C21_Holding /\ call[q].txn = call[p].txn))
             => LockAvailable(call[p].txn)
    /\ \A t \in KnownTxns : rowLock[t] # NoProc => call[rowLock[t]].txn = t
    /\ \A p \in Procs : \A w \in tx[p] : w.payment_id = event_payment[call[p].txn].id

C21_Step ==
    \A t \in KnownTxns :
        (\/ event_payment'[t] # event_payment[t]
         \/ TicketRows(event_checkin', event_payment[t].id)
               # TicketRows(event_checkin, event_payment[t].id))
        => \E p \in Procs :
              /\ call[p].txn = t
              /\ pc[p] \in InTransaction /\ pc'[p] = "ret" /\ result'[p].ok

C21_TicketsIndependent == []C21_NoWaitAcrossTickets /\ [][C21_Step]_vars

\* both callers are inside their transactions at once, each holding the row
\* lock of its own ticket with an uncommitted admit
C21_Witness ==
    /\ rowLock["T1"] = "p1" /\ rowLock["T2"] = "p2"
    /\ pc["p1"] = "inserted" /\ pc["p2"] = "inserted"
    /\ tx["p1"] # {} /\ tx["p2"] # {}

\* C22: a successful update_checkins reports as new rollup the rollup it
\* read under the lock plus delta, and the 200 answer of POST /api/checkin
\* to that call carries exactly these counts: checked_in = that new rollup
\* and remaining = number_of_attendees - checked_in, whatever other calls on
\* the ticket commit meanwhile.
C22_Step(p) ==
    (pc[p] \in {"inserted", "loop"} /\ pc'[p] = "ret" /\ result'[p].ok) =>
        result'[p].msg.args[2] =
            RollupCounts(event_checkin, pay[p].id) + call[p].delta

C22_Answer(p) ==
    (/\ pc[p] = "resp" /\ req[p].endpoint = "checkin"
     /\ http[p].status = 200 /\ call[p].delta # 0) =>
        /\ http[p].checked_in = result[p].msg.args[2]
        /\ http[p].remaining = pay[p].number_of_attendees - http[p].checked_in

C22_ReturnsOwnCounts ==
    [][\A p \in Procs : C22_Step(p)]_vars /\ [](\A p \in Procs : C22_Answer(p))

\* C23: two identical admits of N on one ticket both succeed and together
\* raise the checked-in total by 2N whenever the remaining count before the
\* first was at least 2N.  Concurrent: both were waiting for the lock with
\* remaining count race[1] >= 2N; when both have returned, both succeeded
\* and the total is 2N higher.  Sequential: a caller that runs its admit
\* after an identical call has returned success, with nothing committed in
\* between, is not rejected and leaves the total N above the first call's.
C23_Concurrent ==
    (/\ race # <<>>
     /\ \A p \in Procs : pc[p] = "ret" /\ call[p].delta > 0
     /\ \A p, q \in Procs : call[p] = call[q]
     /\ \A p \in Procs : 2 * call[p].delta <= race[1])
    => /\ \A p \in Procs : result[p].ok
       /\ \A p \in Procs :
             ActiveSum(call[p].txn) =
                 (Purchased(call[p].txn) - race[1]) + 2 * call[p].delta

C23_After(p, q) ==
    /\ p # q
    /\ call[p].delta > 0 /\ call[q] = call[p]
    /\ pc[q] = "ret" /\ result[q].ok
    /\ result[q].msg.args[2] = RollupCounts(event_checkin, pay[p].id)
    /\ pay[p].number_of_attendees - (result[q].msg.args[2] - call[p].delta)
          >= 2 * call[p].delta

C23_Step(p, q) ==
    /\ (pc[p] = "admit" /\ C23_After(p, q) /\ pc'[p] # "admit")
          => pc'[p] = "inserted"
    /\ (pc[p] = "inserted" /\ C23_After(p, q) /\ pc'[p] # "inserted")
          => /\ pc'[p] = "ret" /\ result'[p].ok
             /\ RollupCounts(event_checkin', pay[p].id) =
                   result[q].msg.args[2] + call[p].delta

C23_NoDeduplication ==
    []C23_Concurrent /\ [][\A p, q \in Procs : C23_Step(p, q)]_vars

\* two identical admits of 2 that waited for the lock together have both
\* returned success and the ticket holds two batches of 2
C23_Witness ==
    /\ race = <<MaxAttendees>>
    /\ \A p \in Procs : pc[p] = "ret" /\ result[p].ok /\ call[p].delta = 2
    /\ call["p1"] = call["p2"]
    /\ ActiveSum("T1") = 4
    /\ Cardinality({r \in event_checkin : r.count_checked_in = 2 /\ ~r.revoked_yn}) = 2

\* C24: every row a search lists is the projection a lookup of that ticket
\* gives in the same state; the listed tickets hold the search text (as it
\* was typed or without its surrounding blanks) in their name or email,
\* whatever the letter case; at most 25 are listed, in the order of their
\* names.
C24_Contains(s, t) ==
    \E i \in 0 .. (Len(s) - Len(t)) : SubSeq(s, i + 1, i + Len(t)) = t

C24_HoldsText(r, q) ==
    \E t \in {Lower(q), Lower(Strip(q))} :
        \/ C24_Contains(Lower(r.username), t)
        \/ C24_Contains(Lower(r.email), t)

C24_SearchStep(p) ==
    (pc[p] = "idle" /\ pc'[p] = "row" /\ "data" \in DOMAIN row'[p]) =>
        LET data == row'[p].data
        IN  /\ \A i \in 1 .. Len(data) : data[i] = Ticket(data[i].transaction_id)
            /\ \A i \in 1 .. Len(data) : C24_HoldsText(data[i], row'[p].q)
            /\ Len(data) <= SearchLimit
            /\ \A i, j \in 1 .. Len(data) :
                  i < j => ~NameBefore(data[j].username, data[i].username)

C24_SearchListsMatches == [][\A p \in Procs : C24_SearchStep(p)]_vars

\* C25: no step removes a committed batch or a ticket or moves a batch to
\* another ticket, so the number of batches of a ticket never decreases;
\* batch ids are unique, every id handed out so far lies below the
\* sequence, which never goes back, and a newly inserted batch takes the
\* sequence's value: its id is above every id assigned before, also above
\* the ids of inserts that were rolled back.
C25_Written == event_checkin \cup UNION {tx[p] : p \in Procs}

C25_Ids ==
    /\ \A r \in C25_Written : r.id < checkin_seq
    /\ \A r, x \in event_checkin : r.id = x.id => r = x

C25_Step ==
    /\ DOMAIN event_payment' = DOMAIN event_payment
    /\ \A t \in DOMAIN event_payment : event_payment'[t].id = event_payment[t].id
    /\ \A r \in event_checkin :
          \E x \in event_checkin' : x.id = r.id /\ x.payment_id = r.payment_id
    /\ \A t \in KnownTxns :
          Cardinality(TicketRows(event_checkin', event_payment[t].id))
              >= Cardinality(TicketRows(event_checkin, event_payment[t].id))
    /\ checkin_seq' >= checkin_seq
    /\ \A p \in Procs : \A w \in tx'[p] :
          \/ \E r \in C25_Written : r.id = w.id /\ r.payment_id = w.payment_id
          \/ /\ w.id = checkin_seq /\ checkin_seq' > checkin_seq
             /\ \A r \in C25_Written : r.id < w.id

C25_AppendOnly == []C25_Ids /\ [][C25_Step]_vars

\* the first batch is revoked and still there, the insert that drew id 2
\* was rolled back, and the next admit got id 3
C25_Witness ==
    /\ \E r \in event_checkin : r.id = 1 /\ r.revoked_yn
    /\ \A r \in event_checkin : r.id # 2
    /\ \E r \in event_checkin : r.id = 3 /\ ~r.revoked_yn
    /\ checkin_seq = 4

\* C26: the step in which an admit returns success adds exactly one row to
\* event_checkin and changes no other: the new row is active, without
\* revocation stamp, has count_checked_in = delta, the verifier_id and the
\* notes of the call, and belongs to the ticket the call locked.
C26_AdmitStep(p) ==
    (pc[p] = "inserted" /\ pc'[p] = "ret" /\ result'[p].ok) =>
        \E b \in event_checkin' :
            /\ \A r \in event_checkin : r.id # b.id
            /\ event_checkin' = event_checkin \cup {b}
            /\ ~b.revoked_yn /\ b.revoked_at = <<>> /\ b.revoked_by = Null
            /\ b.count_checked_in = call[p].delta
            /\ b.verifier_id = call[p].verifier_id
            /\ b.notes = call[p].notes
            /\ b.payment_id = event_payment[call[p].txn].id
            /\ rowLock[call[p].txn] = p

C26_AdmitInsertsOneBatch == [][\A p \in Procs : C26_AdmitStep(p)]_vars

\* an admit with a verifier_id and notes has returned next to a revoked
\* batch and an active batch of the other caller, which are as they were
C26_Witness ==
    \E p \in Procs : \E b, r, a \in event_checkin :
        /\ pc[p] = "ret" /\ result[p].ok /\ call[p].delta = 2
        /\ b.verifier_id = "v1" /\ b.notes = "n1" /\ b.count_checked_in = 2
        /\ b.id = 3 /\ ~b.revoked_yn
        /\ r.revoked_yn /\ r.id < b.id
        /\ ~a.revoked_yn /\ a.id < b.id /\ a.verifier_id = Null

\* C27: the step in which a rewind returns success leaves every batch of
\* the table either as it was, or revoked with its count kept, revoked_at
\* stamped with the transaction's time and revoked_by the verifier_id of
\* the call (fully consumed), or still active with no revocation stamp and
\* a smaller positive count (partly consumed); at most one batch is partly
\* consumed, and what it lost is what remained to rewind after the revoked
\* ones: the consumed counts add up to the magnitude of the rewind.
C27_After(r) == CHOOSE x \in event_checkin' : x.id = r.id

C27_Revoked(p, r) ==
    /\ ~r.revoked_yn
    /\ C27_After(r) = [r EXCEPT !.revoked_yn = TRUE,
                                !.revoked_at = <<txStart[p]>>,
                                !.revoked_by = call[p].verifier_id]

C27_Reduced(r) ==
    /\ ~r.revoked_yn
    /\ \E n \in 1 .. (r.count_checked_in - 1) :
          C27_After(r) = [r EXCEPT !.count_checked_in = n]
    /\ C27_After(r).revoked_at = <<>> /\ C27_After(r).revoked_by = Null

C27_RewindStep(p) ==
    (pc[p] = "loop" /\ pc'[p] = "ret" /\ result'[p].ok) =>
        LET revoked == {r \in event_checkin : C27_Revoked(p, r)}
            reduced == {r \in event_checkin : C27_Reduced(r)}
        IN  /\ {x.id : x \in event_checkin'} = {r.id : r \in event_checkin}
            /\ \A r \in event_checkin \ (revoked \cup reduced) : C27_After(r) = r
            /\ Cardinality(reduced) <= 1
            /\ \A r \in revoked \cup reduced :
                  r.payment_id = event_payment[call[p].txn].id
            /\ \A r \in reduced :
                  r.count_checked_in - C27_After(r).count_checked_in
                      = Abs(call[p].delta) - SumCounts(revoked)
            /\ reduced = {} => SumCounts(revoked) = Abs(call[p].delta)

C27_RewindRevokesOrReduces == [][\A p \in Procs : C27_RewindStep(p)]_vars

\* a rewind of 2 by the caller with a verifier_id has revoked the newest
\* batch (count 1) of the other caller and reduced an older batch of 2 to 1
C27_Witness ==
    \E p \in Procs : \E r, a \in event_checkin :
        /\ pc[p] = "ret" /\ result[p].ok /\ call[p].delta = -2
        /\ call[p].verifier_id = "v1"
        /\ r.revoked_yn /\ r.revoked_by = "v1" /\ r.count_checked_in = 1
        /\ r.verifier_id = Null
        /\ ~a.revoked_yn /\ a.count_checked_in = 1 /\ a.id < r.id
        /\ a.revoked_by = Null /\ a.revoked_at = <<>>
        /\ Cardinality(event_checkin) = 2

\* C28: in every reachable state every active batch, committed or written
\* by a transaction that is still open, has count_checked_in >= 1.
C28_ActiveBatchesPositive ==
    \A r \in event_checkin \cup UNION {tx[p] : p \in Procs} :
        ~r.revoked_yn => r.count_checked_in >= 1

\* the only batch ever inserted, of 2, has been reduced to 1 by a rewind of
\* 1 and is still active
C28_Witness ==
    /\ checkin_seq = 2
    /\ \E r \in event_checkin : ~r.revoked_yn /\ r.count_checked_in = 1
    /\ \E p \in Procs : pc[p] = "ret" /\ result[p].ok /\ call[p].delta = -1

\* C29: the rollup of every ticket starts at 0 and every step changes it by
\* exactly the delta of the call on that ticket that returns success in that
\* step, and by nothing when no such call returns (rejected calls, steps
\* inside a transaction, calls on other tickets): in every reachable state
\* the rollup is the sum of the deltas of the successful calls on the ticket.
C29_Rollup(rows, t) == RollupCounts(rows, event_payment[t].id)

C29_Returned(t) ==
    {p \in Procs : /\ pc[p] # "ret" /\ pc'[p] = "ret"
                   /\ call'[p].txn = t /\ result'[p].ok}

C29_Step ==
    \A t \in KnownTxns :
        /\ Cardinality(C29_Returned(t)) <= 1
        /\ C29_Returned(t) = {} =>
              C29_Rollup(event_checkin', t) = C29_Rollup(event_checkin, t)
        /\ \A p \in C29_Returned(t) :
              C29_Rollup(event_checkin', t) =
                  C29_Rollup(event_checkin, t) + call'[p].delta

C29_Conservation ==
    (\A t \in KnownTxns : C29_Rollup(event_checkin, t) = 0) /\ [][C29_Step]_vars

\* an admit of 2, a rewind of 2 and an admit of 1 succeeded on the first
\* ticket (rollup 1), an admit of 1 on the second, and a further admit on
\* the second has just been rejected
C29_Witness ==
    /\ C29_Rollup(event_checkin, "T1") = 1
    /\ \E r \in event_checkin : r.payment_id = 1 /\ r.revoked_yn /\ r.count_checked_in = 2
    /\ C29_Rollup(event_checkin, "T2") = 1
    /\ \E p \in Procs : pc[p] = "ret" /\ call[p].txn = "T2" /\ ~result[p].ok

\* C30: every call that entered its transaction returns or raises.  The
\* batch list of a rewind holds distinct batches and loses its head in
\* every iteration, which also lowers what is left to rewind; batch rows
\* are locked only by the caller that holds the row lock of their ticket,
\* so no caller ever waits for a batch row and the callers never wait for
\* each other in a cycle; a caller waiting for a ticket's row lock finds it
\* free in the state the holder's commit or rollback leaves.
C30_LockOrder ==
    /\ \A p \in Procs : BatchLocks(p) # {} => rowLock[call[p].txn] = p
    /\ \A p \in Procs : pc[p] = "rewind" => BatchLocksAvailable(p)
    /\ \A p \in Procs : pc[p] = "loop" =>
          \A i, j \in 1 .. Len(batches[p]) :
              i # j => batches[p][i].id # batches[p][j].id

C30_LoopStep(p) ==
    /\ (/\ pc[p] = "loop" /\ pc'[p] = "loop"
        /\ <<batches[p], remaining_to_rewind[p], tx[p]>>'
              # <<batches[p], remaining_to_rewind[p], tx[p]>>) =>
          /\ batches'[p] = Tail(batches[p])
          /\ remaining_to_rewind'[p] < remaining_to_rewind[p]
          /\ remaining_to_rewind'[p] >= 0
    /\ (pc[p] \in C21_Holding /\ pc'[p] \in {"ret", "raised"}) =>
          /\ rowLock[call[p].txn] = p
          /\ rowLock'[call[p].txn] = NoProc
          /\ \A q \in Procs \ {p} :
                (pc[q] = "lock" /\ call[q].txn = call[p].txn) =>
                    LockAvailable(call[q].txn)'

C30_EveryCallReturns ==
    /\ []C30_LockOrder
    /\ [][\A p \in Procs : C30_LoopStep(p)]_vars
    /\ \A p \in Procs : (pc[p] \in InTransaction) ~> (pc[p] \in {"ret", "raised"})

\* one caller is in the second iteration of its rewind loop, holding the
\* ticket's row lock and its batch rows, while the other waits for the lock
C30_Witness ==
    \E p, q \in Procs :
        /\ pc[p] = "loop" /\ tx[p] # {} /\ remaining_to_rewind[p] > 0
        /\ batches[p] # <<>>
        /\ Cardinality(BatchLocks(p)) = 2
        /\ pc[q] = "lock" /\ call[q].txn = call[p].txn /\ call[q].delta < 0

====
